---- MODULE Spec2Model ----
(***************************************************************************)
(* Model of the permission entropy analyzer (src/main.py): the scan of a   *)
(* path (analyze_permissions), the permission extraction                   *)
(* (get_permissions), the Shannon entropy (calculate_entropy) and the      *)
(* process exit status (main).                                             *)
(*                                                                         *)
(* Entropy values.  calculate_entropy returns H = -SUM p*log2(p) with      *)
(* p = count/n.  log2 is not an integer function, so an entropy value is   *)
(* carried as the exact rational 2^(n*H) = num/den together with n: the    *)
(* statement "entropy -= p * log2(p)" for one count multiplies 2^(n*H) by  *)
(* (n/count)^count, that is num by n^count and den by count^count.         *)
(*   H = 0        iff num = den                                            *)
(*   H > 0        iff num > den                                            *)
(*   H = log2(K)  iff num = K^n * den                                      *)
(* This is the real-number value of the expression the code evaluates;     *)
(* the rounding of IEEE doubles is not modelled.                           *)
(***************************************************************************)
EXTENDS Integers, Sequences, FiniteSets, TLC

\* ------------------------------------------------------------------ bounds
\* longest sample sequence handed to calculate_entropy on its own
MaxLen == 8
\* largest number of files present in the scanned tree
MaxFiles == 3

\* ---------------------------------------------------------- pure functions

RECURSIVE Pow(_, _)
\* b^e for naturals (the real-number power behind p * log2(p))
Pow(b, e) == IF e = 0 THEN 1 ELSE b * Pow(b, e - 1)

\* entropy 0.0: 2^(1*0) = 1/1
ZeroEntropy == [num |-> 1, den |-> 1, n |-> 1]

\* counts[x] when the dictionary entry is set to 1 instead of incremented
CountOfOne(x, data) == 1

RECURSIVE CountOf(_, _)
\* counts[x] after "for x in data: counts[x] = counts.get(x, 0) + 1"
CountOf(x, data) ==
    IF data = <<>> THEN 0
    ELSE (IF Head(data) = x THEN 1 ELSE 0) + CountOf(x, Tail(data))

RECURSIVE Keys(_, _)
\* the keys of counts in insertion order (first occurrence in data)
Keys(data, seen) ==
    IF data = <<>> THEN <<>>
    ELSE IF Head(data) \in seen THEN Keys(Tail(data), seen)
         ELSE <<Head(data)>> \o Keys(Tail(data), seen \cup {Head(data)})

\* the same iteration with the sign of the term flipped (entropy += ...)
EntropyTermPlus(e, count) ==
    [num |-> e.num * Pow(count, count), den |-> e.den * Pow(e.n, count), n |-> e.n]

\* one iteration of "for count in counts.values()":
\*   probability = count / data_length; entropy -= probability * log2(probability)
EntropyTerm(e, count) ==
    [num |-> e.num * Pow(e.n, count), den |-> e.den * Pow(count, count), n |-> e.n]

RECURSIVE EntropyLoop(_, _, _)
EntropyLoop(e, keys, data) ==
    IF keys = <<>> THEN e
    ELSE EntropyLoop(EntropyTerm(e, CountOf(Head(keys), data)), Tail(keys), data)

\* calculate_entropy(data)
calculate_entropy(data) ==
    IF data = <<>> THEN ZeroEntropy
    ELSE EntropyLoop([num |-> 1, den |-> 1, n |-> Len(data)], Keys(data, {}), data)

\* reading an entropy value
IsZero(e) == e.num = e.den
IsPositive(e) == e.num > e.den
IsLog2(e, k) == e.num % e.den = 0 /\ e.num \div e.den = Pow(k, e.n)

\* ------------------------------------------------------- paths and globs
\* A file or directory name is a sequence of characters; a path is the
\* sequence of its components (os.path.join appends a component).

RootPath == << <<"r">> >>
SubPath == Append(RootPath, <<"s">>)
DeepPath == Append(SubPath, <<"d">>)
Dirs == {RootPath, SubPath, DeepPath}

\* the file names a directory may hold, in the order the listing yields them
FileNames == << <<"a", ".", "x">>, <<"b", ".", "t">> >>

\* every path at which the tree may hold a file
Slots == {Append(d, FileNames[i]) : d \in Dirs, i \in 1..Len(FileNames)}

\* the exclusion patterns tried: none, "*.t", "s/*" and "*"
NoPattern == <<>>
StarDotT == << <<"*", ".", "t">> >>
SubStar == << <<"s">>, <<"*">> >>
Star == << <<"*">> >>
Patterns == {NoPattern, StarDotT, SubStar, Star}

\* st_mode of a regular file: S_IFREG | 0o644 and S_IFREG | 0o755
FileModes == {33188, 33261}
\* the content of a slot: no file, a file whose os.stat raises OSError
\* (a broken link, a denied lookup), or the st_mode of a file
Absent == 0
StatFails == -1
Entries == {Absent, StatFails} \cup FileModes

\* thresholds in half bits: -0.5, 0.0 and 0.5
Thresholds == {-1, 0, 1}

RECURSIVE FnMatch(_, _)
\* fnmatch of one path component against one pattern component
FnMatch(name, pat) ==
    IF pat = <<>> THEN name = <<>>
    ELSE IF Head(pat) = "*"
         THEN FnMatch(name, Tail(pat)) \/ (name # <<>> /\ FnMatch(Tail(name), pat))
    ELSE IF Head(pat) = "?"
         THEN name # <<>> /\ FnMatch(Tail(name), Tail(pat))
    ELSE name # <<>> /\ Head(name) = Head(pat) /\ FnMatch(Tail(name), Tail(pat))

\* Path(filepath).match(pattern) for a relative pattern: the pattern's
\* components are matched against the last components of the path
PathMatch(filepath, pattern) ==
    /\ Len(pattern) <= Len(filepath)
    /\ \A i \in 1..Len(pattern) :
          FnMatch(filepath[Len(filepath) - Len(pattern) + i], pattern[i])

\* stat.S_IMODE: the low 12 bits of st_mode
S_IMODE(mode) == mode % 4096

\* ------------------------------------------------------------------- state
VARIABLES
    \* the filesystem
    rootKind,            \* what args.path names: "missing", "file" or "dir"
    rootMode,            \* st_mode of the path when it is a regular file
    fsFiles,             \* the files of the tree when it is a directory
    unlistable,          \* the directories whose listing raises OSError
    \* the arguments
    exclude_pattern, recursive, threshold,
    \* main / analyze_permissions
    pc,                  \* position of the process
    branch,              \* the branch taken at os.path.isfile
    walkStack,           \* directories os.walk has still to list
    permission_data, file_paths, count, high_entropy_files,
    table,               \* the rows added to the table
    output,              \* what was printed or logged last
    printedCount, printedEntropy,
    errlog,              \* the paths get_permissions logged an error for
    exitStatus,
    \* what happened, for stating the properties
    visited,             \* the files the loop over "files" iterated on
    walkErrors,          \* the directories os.walk could not list
    \* a call of calculate_entropy on its own
    data, result, epc

fsVars == <<rootKind, rootMode, fsFiles, unlistable>>
argVars == <<exclude_pattern, recursive, threshold>>
scanVars == <<permission_data, file_paths, count, visited, errlog>>
reportVars == <<high_entropy_files, table, printedCount, printedEntropy>>
entVars == <<data, result, epc>>
vars == <<fsVars, argVars, scanVars, reportVars, entVars,
          pc, branch, walkStack, output, exitStatus, walkErrors>>

\* ------------------------------------------------------------- filesystem
\* os.path.exists(path)
Exists == rootKind # "missing"

\* os.stat(filepath).st_mode, or StatFails when it raises OSError
Stat(filepath) ==
    IF rootKind = "file" /\ filepath = RootPath THEN rootMode
    ELSE IF rootKind = "dir" /\ filepath \in Slots /\ fsFiles[filepath] # Absent
         THEN fsFiles[filepath]
    ELSE StatFails

\* the "files" os.walk yields for a directory
FilesOf(dir) == SelectSeq(FileNames, LAMBDA f : fsFiles[Append(dir, f)] # Absent)

\* the "dirs" os.walk yields for a directory, as paths
SubdirsOf(dir) ==
    IF dir = RootPath THEN <<SubPath>>
    ELSE IF dir = SubPath THEN <<DeepPath>>
    ELSE <<>>

\* os.scandir(dir) succeeds
Listable(dir) == rootKind = "dir" /\ dir \notin unlistable

\* ------------------------------------------------------------ the scan
None == -1

\* get_permissions(filepath): the permission bits, or None
get_permissions(filepath) ==
    IF Stat(filepath) = StatFails THEN None ELSE S_IMODE(Stat(filepath))

\* the exclusion test applied to the file name instead of the joined path
ExcludedByName(root, file) ==
    exclude_pattern # NoPattern /\ PathMatch(<<file>>, exclude_pattern)

\* "if exclude_pattern and Path(filepath).match(exclude_pattern)"
Excluded(root, file) ==
    exclude_pattern # NoPattern /\ PathMatch(Append(root, file), exclude_pattern)

\* the body of "for file in files" for one file; acc holds
\* permission_data, file_paths and count
ScanFile(acc, root, file) ==
    IF Excluded(root, file) THEN acc
    ELSE LET filepath == Append(root, file)
             perm == get_permissions(filepath)
         IN  IF perm # None
             THEN [perms |-> Append(acc.perms, perm),
                   paths |-> Append(acc.paths, filepath),
                   count |-> acc.count + 1]
             ELSE acc

RECURSIVE ScanFilesBreak(_, _, _)
\* the loop leaving the directory at the first file it cannot read
ScanFilesBreak(acc, root, files) ==
    IF files = <<>> THEN acc
    ELSE IF ~Excluded(root, Head(files))
            /\ get_permissions(Append(root, Head(files))) = None
         THEN acc
    ELSE ScanFilesBreak(ScanFile(acc, root, Head(files)), root, Tail(files))

RECURSIVE ScanFiles(_, _, _)
\* "for file in files: ..."
ScanFiles(acc, root, files) ==
    IF files = <<>> THEN acc
    ELSE ScanFiles(ScanFile(acc, root, Head(files)), root, Tail(files))

\* "if not recursive and root != path: continue"
SkipDir(root) == ~recursive /\ root # RootPath

\* the single file case with the exclusion pattern applied to the path
RootSampleExcluding ==
    IF exclude_pattern # NoPattern /\ PathMatch(RootPath, exclude_pattern)
    THEN [perms |-> <<>>, paths |-> <<>>, count |-> 0]
    ELSE LET perm == get_permissions(RootPath)
         IN  IF perm # None
             THEN [perms |-> <<perm>>, paths |-> <<RootPath>>, count |-> 1]
             ELSE [perms |-> <<>>, paths |-> <<>>, count |-> 0]

\* the single file case: "perm = get_permissions(path); if perm is not None: ..."
RootSample ==
    LET perm == get_permissions(RootPath)
    IN  IF perm # None
        THEN [perms |-> <<perm>>, paths |-> <<RootPath>>, count |-> 1]
        ELSE [perms |-> <<>>, paths |-> <<>>, count |-> 0]

\* ---------------------------------------------------------- the report
\* "x > threshold" for an entropy x and a threshold t given in half bits:
\* H > t/2  iff  (2^(n*H))^2 > 2^(n*t)
EntropyExceeds(e, t) ==
    IF t < 0 THEN TRUE
    ELSE e.num * e.num > Pow(2, e.n * t) * e.den * e.den

\* the flagging test without its "threshold > 0" part
IsFlaggedNoGuard(file_entropy) == EntropyExceeds(file_entropy, threshold)

\* "if file_entropy > threshold and threshold > 0"
IsFlagged(file_entropy) == EntropyExceeds(file_entropy, threshold) /\ threshold > 0

\* the row of one file: path, permissions, calculate_entropy([perm])
Row(filepath, perm) ==
    [path |-> filepath, perm |-> perm, entropy |-> calculate_entropy(<<perm>>)]

\* "for filepath, perm in zip(file_paths, permission_data)": the rows
Rows == [i \in 1..Len(file_paths) |-> Row(file_paths[i], permission_data[i])]

RECURSIVE FlaggedOf(_)
\* high_entropy_files after the loop over the rows
FlaggedOf(rows) ==
    IF rows = <<>> THEN <<>>
    ELSE (IF IsFlagged(Head(rows).entropy) THEN <<Head(rows).path>> ELSE <<>>)
         \o FlaggedOf(Tail(rows))

\* the test "if not permission_data" never taken
NoSamplesNever == FALSE

\* "if not permission_data"
NoSamples == permission_data = <<>>

\* ----------------------------------------------------------------- Init
\* the permission values handed to calculate_entropy on its own
EntropyPerms == {420, 493, 384}
EntropyInputs == UNION {[1..k -> EntropyPerms] : k \in 0..MaxLen}

NumPresent(f) == Cardinality({p \in Slots : f[p] # Absent})

\* the trees scanned: at most MaxFiles files, at most one unlistable directory
Trees == {f \in [Slots -> Entries] : NumPresent(f) <= MaxFiles}
NoFiles == [p \in Slots |-> Absent]
Unlistables == {{}, {RootPath}, {SubPath}}

ProgramInit ==
    /\ branch = "none"
    /\ walkStack = <<>>
    /\ permission_data = <<>>
    /\ file_paths = <<>>
    /\ count = 0
    /\ high_entropy_files = <<>>
    /\ table = <<>>
    /\ output = "none"
    /\ printedCount = -1
    /\ printedEntropy = ZeroEntropy
    /\ errlog = {}
    /\ exitStatus = -1
    /\ visited = {}
    /\ walkErrors = {}

\* a run of main on a path that is missing, a regular file or a directory
Init ==
    /\ rootKind \in {"missing", "file", "dir"}
    /\ rootMode \in FileModes
    /\ rootKind # "file" => rootMode = 33188
    /\ fsFiles \in Trees
    /\ rootKind # "dir" => fsFiles = NoFiles
    /\ unlistable \in Unlistables
    /\ rootKind # "dir" => unlistable = {}
    /\ exclude_pattern \in Patterns
    /\ recursive \in BOOLEAN
    /\ threshold \in Thresholds
    /\ pc = "main"
    /\ ProgramInit
    /\ data = <<>> /\ result = ZeroEntropy /\ epc = "idle"

\* -------------------------------------------------------------- actions
\* the path is removed by another process while the analyzer runs
RemovePath ==
    /\ pc \in {"analyze", "isfile", "get_root", "walk"}
    /\ rootKind # "missing"
    /\ rootKind' = "missing"
    /\ UNCHANGED <<rootMode, fsFiles, unlistable, argVars, scanVars, reportVars,
                   entVars, pc, branch, walkStack, output, exitStatus, walkErrors>>

\* main: "if not os.path.exists(args.path): print(...); sys.exit(1)"
MainCheck ==
    /\ pc = "main"
    /\ IF Exists
       THEN pc' = "analyze" /\ UNCHANGED <<output, exitStatus>>
       ELSE pc' = "exited" /\ output' = "path_error" /\ exitStatus' = 1
    /\ UNCHANGED <<fsVars, argVars, scanVars, reportVars, entVars,
                   branch, walkStack, walkErrors>>

\* analyze_permissions: "if not os.path.exists(path): raise FileNotFoundError",
\* caught by "except FileNotFoundError: logging.error(...); return"; main then
\* returns and the process ends with status 0
AnalyzeExists ==
    /\ pc = "analyze"
    /\ IF Exists
       THEN pc' = "isfile" /\ UNCHANGED <<output, exitStatus>>
       ELSE pc' = "exited" /\ output' = "not_found" /\ exitStatus' = 0
    /\ UNCHANGED <<fsVars, argVars, scanVars, reportVars, entVars,
                   branch, walkStack, walkErrors>>

\* "if os.path.isfile(path): ... else: for root, _, files in os.walk(path)"
IsFile ==
    /\ pc = "isfile"
    /\ IF rootKind = "file"
       THEN pc' = "get_root" /\ branch' = "file" /\ UNCHANGED walkStack
       ELSE pc' = "walk" /\ branch' = "dir" /\ walkStack' = <<RootPath>>
    /\ UNCHANGED <<fsVars, argVars, scanVars, reportVars, entVars,
                   output, exitStatus, walkErrors>>

\* the single file case
GetRootPerm ==
    /\ pc = "get_root"
    /\ permission_data' = RootSample.perms
    /\ file_paths' = RootSample.paths
    /\ count' = RootSample.count
    /\ errlog' = IF get_permissions(RootPath) = None THEN {RootPath} ELSE {}
    /\ pc' = "report"
    /\ UNCHANGED <<fsVars, argVars, reportVars, entVars, visited,
                   branch, walkStack, output, exitStatus, walkErrors>>

\* one round of os.walk: the next directory is listed (an error of the
\* listing is ignored, os.walk being called without onerror), its
\* subdirectories are kept for later, and the loop body runs on its files
WalkStep ==
    /\ pc = "walk"
    /\ walkStack # <<>>
    /\ LET dir == Head(walkStack)
           acc == ScanFiles([perms |-> permission_data, paths |-> file_paths,
                             count |-> count], dir, FilesOf(dir))
           seen == {Append(dir, FileNames[i]) : i \in
                      {j \in 1..Len(FileNames) : fsFiles[Append(dir, FileNames[j])] # Absent}}
       IN  /\ IF ~Listable(dir)
              THEN /\ walkErrors' = walkErrors \cup {dir}
                   /\ walkStack' = Tail(walkStack)
                   /\ UNCHANGED scanVars
              ELSE /\ walkStack' = SubdirsOf(dir) \o Tail(walkStack)
                   /\ UNCHANGED walkErrors
                   /\ IF SkipDir(dir)
                      THEN UNCHANGED scanVars
                      ELSE /\ permission_data' = acc.perms
                           /\ file_paths' = acc.paths
                           /\ count' = acc.count
                           /\ visited' = visited \cup seen
                           /\ errlog' = errlog \cup
                                {p \in seen : ~Excluded(dir, p[Len(p)])
                                              /\ get_permissions(p) = None}
           /\ pc' = IF walkStack' = <<>> THEN "report" ELSE "walk"
    /\ UNCHANGED <<fsVars, argVars, reportVars, entVars, branch, output, exitStatus>>

\* the end of analyze_permissions: the notice when there is no sample, else
\* the entropy, the rows, the flagged files and the summary; main then
\* returns and the process ends with status 0
Report ==
    /\ pc = "report"
    /\ IF NoSamples
       THEN /\ output' = "notice"
            /\ UNCHANGED reportVars
       ELSE /\ printedEntropy' = calculate_entropy(permission_data)
            /\ table' = Rows
            /\ high_entropy_files' = FlaggedOf(Rows)
            /\ printedCount' = count
            /\ output' = "table"
    /\ pc' = "exited"
    /\ exitStatus' = 0
    /\ UNCHANGED <<fsVars, argVars, scanVars, entVars, branch, walkStack, walkErrors>>

Next ==
    \/ MainCheck
    \/ AnalyzeExists
    \/ IsFile
    \/ GetRootPerm
    \/ WalkStep
    \/ Report
    \/ RemovePath

Spec == Init /\ [][Next]_vars

\* --------------------------------------- calculate_entropy on its own
InitEntropy ==
    /\ rootKind = "missing" /\ rootMode = 33188 /\ fsFiles = NoFiles
    /\ unlistable = {}
    /\ exclude_pattern = NoPattern /\ recursive = FALSE /\ threshold = 0
    /\ pc = "idle"
    /\ ProgramInit
    /\ data \in EntropyInputs
    /\ result = ZeroEntropy
    /\ epc = "call"

\* result = calculate_entropy(data)
CallEntropy ==
    /\ epc = "call"
    /\ result' = calculate_entropy(data)
    /\ epc' = "returned"
    /\ UNCHANGED <<fsVars, argVars, scanVars, reportVars, data,
                   pc, branch, walkStack, output, exitStatus, walkErrors>>

NextEntropy == CallEntropy

SpecEntropy == InitEntropy /\ [][NextEntropy]_vars

\* ------------------------------------------------------------- typing
TypeOK ==
    /\ rootKind \in {"missing", "file", "dir"}
    /\ pc \in {"idle", "main", "analyze", "isfile", "get_root", "walk", "report", "exited"}
    /\ branch \in {"none", "file", "dir"}
    /\ output \in {"none", "path_error", "not_found", "notice", "table"}
    /\ exitStatus \in {-1, 0, 1}
    /\ count = Len(permission_data)
    /\ Len(file_paths) = Len(permission_data)
    /\ \A i \in 1..Len(permission_data) : permission_data[i] \in 0..4095
    /\ visited \subseteq Slots
    /\ walkErrors \subseteq Dirs

\* ---------------------------------------------------- reading a state
\* the values of a sequence
Range(seq) == {seq[i] : i \in DOMAIN seq}

\* how often a value occurs in a sequence
Occurrences(seq, x) == Cardinality({i \in DOMAIN seq : seq[i] = x})

\* the number of distinct values of data
Distinct == Cardinality(Range(data))

\* every distinct value of data occurs equally often
UniformSplit == \A x, y \in Range(data) : Occurrences(data, x) = Occurrences(data, y)

\* the file at p can be read: os.stat succeeds on it
Readable(p) == fsFiles[p] \in FileModes

\* the path p matches the exclusion pattern given
Matches(p) == exclude_pattern # NoPattern /\ PathMatch(p, exclude_pattern)

\* the scan has ended and the process has exited
Exited == pc = "exited"

\* the scan ended with no sample
ScanEndedEmpty == Exited /\ branch # "none" /\ permission_data = <<>>

\* ------------------------------------------------------------------ C1
\* C1: for a non-empty sequence of samples, calculate_entropy returns 0.0
\* exactly when all values are identical, and a value strictly greater than
\* 0 when there are two or more distinct values.
C1_ZeroIffOneValue ==
    (epc = "returned" /\ data # <<>>) =>
        /\ IsZero(result) <=> Distinct = 1
        /\ Distinct >= 2 => IsPositive(result)

\* C1 witness: an entropy was computed for samples of two distinct values
C1_Witness ==
    /\ epc = "returned"
    /\ Len(data) >= 3
    /\ Distinct = 2
    /\ IsPositive(result)

\* ------------------------------------------------------------------ C2
\* C2: for N samples split evenly across K distinct values,
\* calculate_entropy returns log2(K).
C2_UniformIsLog2 ==
    (epc = "returned" /\ data # <<>> /\ UniformSplit) => IsLog2(result, Distinct)

\* C2 witness: 8 samples split 4/4 across two values gave 1.0 = log2(2)
C2_Witness ==
    /\ epc = "returned"
    /\ Len(data) = 8
    /\ Distinct = 2
    /\ UniformSplit
    /\ IsLog2(result, 2)

\* ------------------------------------------------------------------ C3
\* C3 as stated: when the scan yields zero samples (an empty directory,
\* everything excluded or every file unreadable), the analysis ends without
\* raising and reports a result with file count 0, aggregate entropy 0.0
\* and an empty row list.
C3_Original ==
    (ScanEndedEmpty /\ rootKind = "dir" /\ walkErrors = {}) =>
        /\ exitStatus = 0
        /\ output = "table"
        /\ printedCount = 0
        /\ IsZero(printedEntropy)
        /\ table = <<>>

\* C3 amended: when the scan yields zero samples, the analysis ends without
\* raising and the process exits with status 0; the count is 0 and there is
\* no row, but no count and no entropy are reported: only the notice that
\* no file was found is printed (calculate_entropy, which is 0.0 on the
\* empty list, is not reached).
C3_EmptyPrintsNotice ==
    ScanEndedEmpty =>
        /\ exitStatus = 0
        /\ output = "notice"
        /\ count = 0
        /\ file_paths = <<>>
        /\ table = <<>>
        /\ printedCount = -1
        /\ IsZero(calculate_entropy(permission_data))

\* C3 witness: a directory whose files were all visited and none sampled
C3_Witness ==
    /\ ScanEndedEmpty
    /\ rootKind = "dir"
    /\ visited # {}
    /\ output = "notice"

\* ------------------------------------------------------------------ C4
\* C4: a file is flagged only if threshold > 0 and its own entropy exceeds
\* the threshold; the entropy of every row is 0.0, so no file is ever
\* flagged, whatever the threshold.
C4_NothingFlagged ==
    /\ high_entropy_files = <<>>
    /\ \A i \in DOMAIN table : IsZero(table[i].entropy)
    /\ \A p \in Range(high_entropy_files) :
          /\ threshold > 0
          /\ \E i \in DOMAIN table :
                table[i].path = p /\ EntropyExceeds(table[i].entropy, threshold)

\* C4 witness: a table of two rows was printed under a threshold <= 0
C4_Witness ==
    /\ Exited
    /\ output = "table"
    /\ Len(table) >= 2
    /\ threshold <= 0

\* ------------------------------------------------------------------ C5
\* C5: for a directory, a non-recursive scan samples only files directly
\* inside the root, and a recursive scan samples every readable,
\* non-excluded file of every descendant directory exactly once.
C5_RecursionPolicy ==
    (Exited /\ branch = "dir" /\ rootKind = "dir") =>
        /\ ~recursive =>
              \A i \in DOMAIN file_paths : Len(file_paths[i]) = Len(RootPath) + 1
        /\ recursive =>
              \A p \in Slots :
                 (Readable(p) /\ ~Matches(p)) => Occurrences(file_paths, p) = 1

\* ------------------------------------------------------------------ C6
\* C6: for a directory scanned with an exclusion pattern, no sampled path
\* matches the pattern, and every visited readable file that does not match
\* is sampled; "*.t" over a.x and b.t samples a.x alone, with count 1.
C6_ExcludedNeverSampled ==
    (branch = "dir" /\ exclude_pattern # NoPattern) =>
        /\ \A i \in DOMAIN file_paths : ~PathMatch(file_paths[i], exclude_pattern)
        /\ \A p \in visited :
              (Readable(p) /\ ~PathMatch(p, exclude_pattern)) => p \in Range(file_paths)
        /\ exclude_pattern = StarDotT =>
              \A i \in DOMAIN file_paths :
                 file_paths[i][Len(file_paths[i])] # <<"b", ".", "t">>
        /\ exclude_pattern = SubStar =>
              \A i \in DOMAIN file_paths : Len(file_paths[i]) # Len(SubPath) + 1
        /\ exclude_pattern = Star => file_paths = <<>>

\* C6 witness: the root holds a.x and b.t, the pattern is "*.t", and the
\* scan sampled a.x alone
C6_Witness ==
    /\ Exited
    /\ branch = "dir"
    /\ exclude_pattern = StarDotT
    /\ Readable(Append(RootPath, FileNames[1]))
    /\ Readable(Append(RootPath, FileNames[2]))
    /\ visited = {Append(RootPath, FileNames[1]), Append(RootPath, FileNames[2])}
    /\ file_paths = <<Append(RootPath, FileNames[1])>>
    /\ printedCount = 1
    /\ IsZero(printedEntropy)

\* ------------------------------------------------------------------ C7
\* the result of a scan that sampled the root file alone
OneRootSample ==
    /\ file_paths = <<RootPath>>
    /\ permission_data = <<rootMode - 32768>>
    /\ count = 1
    /\ output = "table"
    /\ printedCount = 1
    /\ IsZero(printedEntropy)

\* C7 as stated: when the root is a regular file, the scan yields exactly
\* one sample, with the file's permission bits, count 1 and entropy 0.0,
\* whatever the recursive flag and the exclusion pattern.
C7_Original == (Exited /\ branch = "file") => OneRootSample

\* C7 amended: when the root is a regular file and get_permissions can read
\* its metadata, the scan yields exactly one sample, with the file's
\* permission bits, count 1 and entropy 0.0, whatever the recursive flag and
\* the exclusion pattern; when get_permissions fails (the file vanished
\* after the isfile test) there is no sample and the notice is printed.
C7_OneSampleIfReadable ==
    (Exited /\ branch = "file") =>
        IF RootPath \in errlog
        THEN permission_data = <<>> /\ count = 0 /\ output = "notice"
        ELSE OneRootSample

\* C7 witness: a single file was sampled though the pattern matches its
\* path and the scan is recursive
C7_Witness ==
    /\ Exited
    /\ branch = "file"
    /\ exclude_pattern = Star
    /\ recursive
    /\ count = 1

\* ------------------------------------------------------------------ C8
\* C8: in a directory scan a file whose metadata cannot be read gives no
\* sample and the scan goes on: the samples are exactly the visited files
\* that are readable and not excluded, and the count is their number.
C8_UnreadableSkipped ==
    branch = "dir" =>
        /\ \A p \in visited :
              p \in Range(file_paths) <=> (Readable(p) /\ ~Matches(p))
        /\ Range(file_paths) \subseteq visited
        /\ count = Cardinality({p \in visited : Readable(p) /\ ~Matches(p)})
        /\ errlog = {p \in visited : ~Readable(p) /\ ~Matches(p)}
        /\ (Exited /\ count > 0) => (output = "table" /\ printedCount = count)

\* C8 witness: a.x of the root could not be read and b.t, listed after it,
\* was sampled and reported
C8_Witness ==
    /\ Exited
    /\ Append(RootPath, FileNames[1]) \in errlog
    /\ Append(RootPath, FileNames[2]) \in Range(file_paths)
    /\ output = "table"

\* ------------------------------------------------------------------ C9
\* C9: the process exits with a non-zero status exactly when the path was
\* found not to exist, also when it stops existing between the test of main
\* and the test of analyze_permissions.
C9_ExitStatus ==
    Exited => (exitStatus # 0 <=> output \in {"path_error", "not_found"})

\* ----------------------------------------------------------------- C10
\* C10: when a directory cannot be listed during the walk, the scan is
\* aborted and no analysis result is produced.
C10_ListingErrorAborts ==
    (Exited /\ walkErrors # {}) => output # "table"

====
